---- MODULE Spec2Model ----
(***************************************************************************)
(* BugZero search client (src/bugzero/github.py): one call of              *)
(* GitHubSearchClient.search_code, its paginated fetch loop and the        *)
(* rate-limit-aware retry loop of _request_with_retry, run against an      *)
(* arbitrary HTTP server.                                                  *)
(*                                                                         *)
(* Python values are encoded as follows.                                   *)
(*   - str that the code inspects (response text, response header values)  *)
(*     is a sequence of one-character strings;                             *)
(*   - Optional[x] (dict.get without default) is <<>> for None and <<x>>   *)
(*     for a value;                                                        *)
(*   - a dict of headers is a function from header names to values.        *)
(***************************************************************************)
EXTENDS Integers, Sequences, FiniteSets, TLC

VARIABLES
    pc,              \* position of the single (synchronous) thread of control
    session_headers, \* self.session.headers
    per_page,        \* search_code argument
    pages,           \* search_code argument
    text_matches,    \* search_code argument
    headers,         \* search_code local: per-request extra headers
    results,         \* search_code local: accumulated SearchResult list
    page,            \* search_code loop variable
    payload,         \* search_code local: value returned by _request_with_retry
    attempt,         \* _request_with_retry loop variable
    response,        \* _request_with_retry local: last response
    wait_seconds,    \* _request_with_retry local
    now,             \* _retry_after: the value time.time() returned
    returned,        \* what the caller of search_code received (<<>> = nothing)
    exc,             \* exception propagating out of search_code (<<>> = none)
    \* ---- observation of the wire and of the call, not program state ----
    gets,            \* HTTP GETs issued by this search_code call
    sleeps,          \* time.sleep calls made by this search_code call
    req_gets,        \* HTTP GETs of the current logical request
    req_sleeps,      \* sleeps of the current logical request
    history,         \* responses of the current logical request, as labelled by the server
    requested,       \* page numbers of the logical requests, in order
    fetched,         \* items arrays of the pages processed, in order
    sent_headers,    \* headers on the wire of the last HTTP GET
    \* ---- a QuerySpec instance and its callers (src/bugzero/types.py) ----
    query_spec,      \* the instance: its fields query and qualifiers
    built,           \* the strings returned by the calls of build(), in order
    \* ---- token resolution (src/bugzero/config.py) and its CLI caller ----
    explicit,        \* resolve_token argument: args.token (None when not given)
    environ,         \* os.environ's GITHUB_TOKEN (None when unset)
    config,          \* the config file on disk
    outcome,         \* what resolve_token returned or raised
    client_token     \* the token GitHubSearchClient was constructed with by the CLI

client_vars ==
    <<pc, session_headers, per_page, pages, text_matches, headers, results,
      page, payload, attempt, response, wait_seconds, now, returned, exc,
      gets, sleeps, req_gets, req_sleeps, history, requested, fetched,
      sent_headers>>
query_vars == <<query_spec, built>>
token_vars == <<explicit, environ, config, outcome, client_token>>

vars == <<pc, session_headers, per_page, pages, text_matches, headers, results,
          page, payload, attempt, response, wait_seconds, now, returned, exc,
          gets, sleeps, req_gets, req_sleeps, history, requested, fetched,
          sent_headers, query_spec, built,
          explicit, environ, config, outcome, client_token>>

-----------------------------------------------------------------------------
(* Bounds of the model *)

MaxPerPage == 2     \* per_page ranges over 0..MaxPerPage
MaxPages == 3       \* pages ranges over 0..MaxPages
MaxItems == 2       \* a page carries at most MaxItems items
MaxNow == 2         \* time.time() ranges over 0..MaxNow
MaxQueryLen == 4    \* QuerySpec.query has at most MaxQueryLen characters
MaxQualifiers == 2  \* QuerySpec.qualifiers has at most MaxQualifiers pairs
MaxBuilds == 2      \* build() is called at most MaxBuilds times on an instance
MaxTokenLen == 2    \* token strings have at most MaxTokenLen characters

(* Program constants *)

\* fault variant: one attempt too many
MAX_RETRIES_one_more == 3 + 1
MAX_RETRIES == 3
MaxBackoff == 60

TextMatchAccept == "application/vnd.github.v3.text-match+json"
Token == "ghp_token"
UserAgent == "BugZero/0.1"

None == <<>>
Some(x) == <<x>>
EmptyDict == [k \in {} |-> None]

-----------------------------------------------------------------------------
(* Python string primitives used by the client *)

\* str.lower() on one character (the letters occurring in the modelled texts)
LowerChar(c) ==
    CASE c = "R" -> "r" [] c = "A" -> "a" [] c = "T" -> "t" [] c = "E" -> "e"
      [] c = "L" -> "l" [] c = "I" -> "i" [] c = "M" -> "m"
      [] OTHER -> c

lower(s) == [i \in 1..Len(s) |-> LowerChar(s[i])]

\* sub in s
contains(s, sub) ==
    \E i \in 0..(Len(s) - Len(sub)) : SubSeq(s, i + 1, i + Len(sub)) = sub

RateLimitPhrase == <<"r", "a", "t", "e", " ", "l", "i", "m", "i", "t">>

Digits == {"0", "1", "2", "3", "4", "5", "6", "7", "8", "9"}

DigitValue(c) ==
    CASE c = "0" -> 0 [] c = "1" -> 1 [] c = "2" -> 2 [] c = "3" -> 3
      [] c = "4" -> 4 [] c = "5" -> 5 [] c = "6" -> 6 [] c = "7" -> 7
      [] c = "8" -> 8 [] c = "9" -> 9

\* the whitespace characters occurring in the modelled strings
Whitespace == {" ", "\n"}

\* str.strip()
RECURSIVE strip(_)
strip(s) ==
    IF s = <<>> THEN s
    ELSE IF Head(s) \in Whitespace THEN strip(Tail(s))
    ELSE IF s[Len(s)] \in Whitespace THEN strip(SubSeq(s, 1, Len(s) - 1))
    ELSE s

\* str.split(): the maximal runs of non-whitespace characters
RECURSIVE split(_)
split(s) ==
    IF s = <<>> THEN <<>>
    ELSE IF Head(s) \in Whitespace THEN split(Tail(s))
    ELSE LET stops == {i \in 1..Len(s) : s[i] \in Whitespace}
             n == IF stops = {} THEN Len(s)
                  ELSE (CHOOSE i \in stops : \A j \in stops : i <= j) - 1
         IN  <<SubSeq(s, 1, n)>> \o split(SubSeq(s, n + 1, Len(s)))

\* sep.join(parts)
RECURSIVE join(_, _)
join(sep, parts) ==
    IF parts = <<>> THEN <<>>
    ELSE IF Len(parts) = 1 THEN parts[1]
    ELSE parts[1] \o sep \o join(sep, Tail(parts))

RECURSIVE DecimalValue(_)
DecimalValue(s) ==
    IF s = <<>> THEN 0
    ELSE 10 * DecimalValue(SubSeq(s, 1, Len(s) - 1)) + DigitValue(s[Len(s)])

\* int(s): surrounding whitespace stripped, optional sign, at least one digit;
\* anything else raises ValueError
int(s) ==
    LET t == strip(s)
        signed == t # <<>> /\ Head(t) \in {"+", "-"}
        d == IF signed THEN Tail(t) ELSE t
    IN  IF d # <<>> /\ \A i \in 1..Len(d) : d[i] \in Digits
        THEN [ok |-> TRUE,
              value |-> IF signed /\ Head(t) = "-" THEN 0 - DecimalValue(d)
                        ELSE DecimalValue(d)]
        ELSE [ok |-> FALSE, value |-> 0]

Max(a, b) == IF a >= b THEN a ELSE b
Min(a, b) == IF a <= b THEN a ELSE b

\* dict.get(key) / dict.get(key, default)
Get(d, k) == IF k \in DOMAIN d THEN Some(d[k]) ELSE None
GetOr(d, k, default) == IF k \in DOMAIN d THEN d[k] ELSE default

-----------------------------------------------------------------------------
(* The HTTP server: every reply the client may receive.  The server labels  *)
(* each reply with whether it signals rate limiting (status 403 and either  *)
(* a body mentioning the phrase or a remaining-quota header of "0"); the    *)
(* label is known from how the reply is built and is never shown to the     *)
(* client.                                                                  *)

TxtRateLimitMixed == <<"R", "a", "t", "e", " ", "L", "i", "m", "i", "t">>
TxtRateLimitLower == <<"a", " ", "r", "a", "t", "e", " ", "l", "i", "m", "i", "t", "!">>
TxtLimitRate == <<"l", "i", "m", "i", "t", " ", "r", "a", "t", "e">>

ErrorTexts == {TxtRateLimitMixed, TxtRateLimitLower, TxtLimitRate}
MentionsRateLimit == {TxtRateLimitMixed, TxtRateLimitLower}

\* items of a search response (dicts); ItemB lacks every optional field
ItemA == [path |-> "a.py", repository |-> [full_name |-> "octo/repo"],
          html_url |-> "https://github.com/octo/repo/a.py", score |-> 7,
          text_matches |-> <<[fragment |-> "leak()"]>>]
ItemB == [path |-> "b.py"]
Items == {ItemA, ItemB}

\* the items arrays a page may carry: the first n hits of the search, which
\* alternate between the two kinds of item
Hits(n) == [i \in 1..n |-> IF i % 2 = 1 THEN ItemA ELSE ItemB]
ItemSeqs == {Hits(n) : n \in 0..MaxItems}

Body(text, json, message, items, mentions) ==
    [text |-> text, json |-> json, message |-> message, items |-> items,
     mentions |-> mentions]

\* bodies of error replies: a JSON object with a message, a JSON object
\* without one, plain text, and JSON that is not an object
ErrorBodies ==
    {Body(<<"{">> \o m \o <<"}">>, "object", Some(m), None, m \in MentionsRateLimit) :
        m \in ErrorTexts}
    \cup {Body(m, "ValueError", None, None, m \in MentionsRateLimit) :
        m \in {TxtRateLimitMixed, TxtLimitRate}}
    \cup {Body(<<"{", "}">>, "object", None, None, FALSE),
          Body(<<"[", "]">>, "other", None, None, FALSE)}

\* bodies of status-200 replies: an object with an items array, an object
\* without one, an undecodable body, and JSON that is not an object
OkBodies ==
    {Body(<<"{", "i", "}">>, "object", None, Some(s), FALSE) : s \in ItemSeqs}
    \cup {Body(<<"{", "}">>, "object", None, None, FALSE),
          Body(<<"<", ">">>, "ValueError", None, None, FALSE),
          Body(<<"[", "]">>, "other", None, None, FALSE)}

RemainingValues == {None, Some(<<"0">>), Some(<<"1">>)}
\* reset headers the server sends: Unix timestamps as it prints them, and
\* values that are no integer (empty, malformed)
ResetTimestamps ==
    {[text |-> <<"0">>, value |-> 0], [text |-> <<"1", "2">>, value |-> 12],
     [text |-> <<"-", "3">>, value |-> 0 - 3], [text |-> <<" ", "7">>, value |-> 7]}
ResetJunk == {<<>>, <<"1", "x">>}
ResetValues ==
    {None} \cup {Some(e.text) : e \in ResetTimestamps} \cup {Some(j) : j \in ResetJunk}

HeaderDict(remaining, reset) ==
    [k \in (IF remaining = None THEN {} ELSE {"X-RateLimit-Remaining"})
           \cup (IF reset = None THEN {} ELSE {"X-RateLimit-Reset"}) |->
        IF k = "X-RateLimit-Remaining" THEN remaining[1] ELSE reset[1]]

Reply(status, body, remaining, reset) ==
    [response |-> [status_code |-> status, text |-> body.text, json |-> body.json,
                   message |-> body.message, items |-> body.items,
                   headers |-> HeaderDict(remaining, reset)],
     rate_limited |-> status = 403 /\ (body.mentions \/ remaining = Some(<<"0">>))]

OtherStatuses == {401, 404, 422, 429, 500}

EmptyObject == Body(<<"{", "}">>, "object", None, None, FALSE)
RateLimitObject ==
    Body(<<"{">> \o TxtRateLimitMixed \o <<"}">>, "object", Some(TxtRateLimitMixed),
         None, TRUE)

\* 403 with every body and remaining-quota header; the reset header varies
\* on a reply that is rate limited by its body and on one that is rate
\* limited by its header only
Replies ==
    {Reply(200, b, None, None) : b \in OkBodies}
    \cup {Reply(403, b, rem, None) : b \in ErrorBodies, rem \in RemainingValues}
    \cup {Reply(403, RateLimitObject, None, rst) : rst \in ResetValues}
    \cup {Reply(403, EmptyObject, Some(<<"0">>), rst) : rst \in ResetValues}
    \cup {Reply(s, b, None, None) : s \in OtherStatuses, b \in ErrorBodies}
    \cup {Reply(s, EmptyObject, Some(<<"0">>), None) : s \in OtherStatuses}

NoResponse == [status_code |-> 0, text |-> <<>>, json |-> "ValueError",
               message |-> None, items |-> None, headers |-> EmptyDict]

-----------------------------------------------------------------------------
(* Pure helpers of github.py *)

\* _parse_items, one item
ParseItem(item) ==
    LET repo == GetOr(item, "repository", EmptyDict)
        tm == GetOr(item, "text_matches", <<>>)
        score == GetOr(item, "score", 0)
    IN  [repository |-> GetOr(repo, "full_name", "unknown/repo"),
         path |-> GetOr(item, "path", ""),
         url |-> GetOr(item, "html_url", ""),
         score |-> IF score = 0 THEN 0 ELSE score,
         snippet |-> IF tm # <<>> THEN Get(tm[1], "fragment") ELSE None]

parse_items(items) == [i \in 1..Len(items) |-> ParseItem(items[i])]

is_rate_limited(resp) ==
    \/ contains(lower(resp.text), RateLimitPhrase)
    \/ Get(resp.headers, "X-RateLimit-Remaining") = Some(<<"0">>)

Backoff(n) == Min(2 ^ n, MaxBackoff)

\* fault variant: the reset header used without the floor of one time-unit
retry_after_no_floor(resp, n, t) ==
    LET reset_header == Get(resp.headers, "X-RateLimit-Reset")
    IN  IF reset_header # None /\ reset_header[1] # <<>>
        THEN LET reset_time == int(reset_header[1])
             IN  IF reset_time.ok THEN reset_time.value - t
                 ELSE Backoff(n)
        ELSE Backoff(n)

retry_after(resp, n, t) ==
    LET reset_header == Get(resp.headers, "X-RateLimit-Reset")
    IN  IF reset_header # None /\ reset_header[1] # <<>>
        THEN LET reset_time == int(reset_header[1])
             IN  IF reset_time.ok THEN Max(reset_time.value - t, 1)
                 ELSE Backoff(n)
        ELSE Backoff(n)

\* _extract_error_message: only ValueError is caught, so payload.get on a
\* JSON value that is not an object escapes as AttributeError
extract_error_message(resp) ==
    CASE resp.json = "ValueError" -> [raised |-> None, value |-> resp.text]
      [] resp.json = "object" ->
            [raised |-> None,
             value |-> IF resp.message # None THEN resp.message[1] ELSE resp.text]
      [] OTHER -> [raised |-> Some("AttributeError"), value |-> <<>>]

\* exceptions: type, message template, and the values formatted into it
Exception(type, text, status, detail) ==
    [type |-> type, text |-> text, status_code |-> status, detail |-> detail]

RetryLimitExceeded ==
    Exception("GitHubAPIError", "Retry limit exceeded while calling GitHub API",
              None, None)
Unauthorized ==
    Exception("GitHubAPIError", "GitHub rejected the token (401 Unauthorized)",
              None, None)
APIError(status, message) ==
    Exception("GitHubAPIError", "GitHub API error {status_code}: {message}",
              Some(status), Some(message))
JSONDecodeError == Exception("JSONDecodeError", "", None, None)
AttributeError == Exception("AttributeError", "", None, None)

\* headers set on the session by __init__
client_headers(token, user_agent) ==
    [k \in {"Authorization", "Accept", "User-Agent"} |->
        CASE k = "Authorization" -> "token " \o token
          [] k = "Accept" -> TextMatchAccept
          [] OTHER -> user_agent]

\* search_code: the per-request headers
extra_headers(tm) ==
    IF tm THEN [k \in {"Accept"} |-> TextMatchAccept] ELSE EmptyDict

\* session.get(headers=...): per-request headers override the session's
merge_headers(session, extra) ==
    [k \in DOMAIN session \cup DOMAIN extra |->
        IF k \in DOMAIN extra THEN extra[k] ELSE session[k]]

\* the branch conditions of _request_with_retry, in the order tested
status_ok(resp) == resp.status_code = 200
\* fault variant: a 401 with rate-limit markers is retried too
should_retry_any_4xx(resp) == resp.status_code \in {401, 403} /\ is_rate_limited(resp)
should_retry(resp) == resp.status_code = 403 /\ is_rate_limited(resp)
is_unauthorized(resp) == resp.status_code = 401

\* for attempt in range(1, MAX_RETRIES + 1): another iteration follows
\* fault variant: range(1, MAX_RETRIES)
attempts_left_one_less(n) == n < MAX_RETRIES - 1
attempts_left(n) == n < MAX_RETRIES

\* search_code: results.extend, the early break, and the page loop's range
\* fault variants: a page put in front; stop only on an empty page;
\* range(1, pages + 2)
extend_in_front(acc, parsed) == parsed \o acc
extend(acc, parsed) == acc \o parsed
early_stop_on_empty(n_items, pp) == n_items = 0
early_stop(n_items, pp) == n_items < pp
more_pages_inclusive(p, pg) == p <= pg
more_pages(p, pg) == p < pg

\* search_code has no try/except: what the caller holds when it raises
\* fault variant: the error is swallowed and the partial list handed back
on_raise_partial(acc) == Some(acc)
on_raise(acc) == None

NoPayload == [json |-> "object", items |-> None]

-----------------------------------------------------------------------------
(* QuerySpec (types.py) *)

\* fault variant: a bare key rendered with a trailing colon
render_token_always_colon(qualifier, value) == qualifier \o <<":">> \o value
\* token = qualifier if not value else f"{qualifier}:{value}"
render_token(qualifier, value) ==
    IF value = <<>> THEN qualifier ELSE qualifier \o <<":">> \o value

\* the for loop of build(): the tokens appended for the qualifiers
RECURSIVE qualifier_parts(_)
qualifier_parts(quals) ==
    IF quals = <<>> THEN <<>>
    ELSE LET qualifier == strip(Head(quals)[1])
             value == strip(Head(quals)[2])
         IN  (IF qualifier = <<>> THEN <<>>
              ELSE <<render_token(qualifier, value)>>)
             \o qualifier_parts(Tail(quals))

\* QuerySpec.build
build(self) ==
    LET query_text == join(<<" ">>, split(self.query))
        parts == (IF query_text # <<>> THEN <<query_text>> ELSE <<>>)
                 \o qualifier_parts(self.qualifiers)
    IN  join(<<" ">>, parts)

\* the instances built from: every query text of up to MaxQueryLen
\* characters, and up to MaxQualifiers pairs of the keys and values below
QueryChars == {"a", " ", "\n"}
QueryTexts == UNION {[1..n -> QueryChars] : n \in 0..MaxQueryLen}
QualifierKeys == {<<" ">>, <<"k">>, <<" ", "k", " ">>}
QualifierValues == {<<>>, <<" ">>, <<"v", " ">>}
QualifierPairs == {<<k, v>> : k \in QualifierKeys, v \in QualifierValues}
QualifierSeqs == UNION {[1..n -> QualifierPairs] : n \in 0..MaxQualifiers}
QuerySpecs == [query : QueryTexts, qualifiers : QualifierSeqs]

\* QuerySpec("a", ()): the instance the search client is handed
DefaultQuerySpec == [query |-> <<"a">>, qualifiers |-> <<>>]

\* after QuerySpec(query, qualifiers)
QueryInit ==
    /\ query_spec \in QuerySpecs
    /\ built = <<>>

\* one call of query_spec.build()
call_build ==
    /\ Len(built) < MaxBuilds
    /\ built' = Append(built, build(query_spec))
    /\ UNCHANGED query_spec

-----------------------------------------------------------------------------
(* Token resolution (config.py) *)

TokenNotFound ==
    Exception("RuntimeError",
              "GitHub token not found. Set the GITHUB_TOKEN environment variable or run bugzero token set to persist it.",
              None, None)
ConfigNotJSON ==
    Exception("RuntimeError", "Config file at {path} is not valid JSON", None, None)

Returned(value) == [returned |-> Some(value), raised |-> None]
Raised(e) == [returned |-> None, raised |-> Some(e)]
NotCalled == [returned |-> None, raised |-> None]

\* the config file: absent; not JSON; JSON that is not an object; an object
\* whose github_token is null; an object with or without a github_token string
ConfigFile(kind, token) == [kind |-> kind, token |-> token]

\* _read_config(path).get("github_token", "").strip(), with what it raises
config_token(file) ==
    CASE file.kind = "absent" -> Returned(strip(<<>>))
      [] file.kind = "not_json" -> Raised(ConfigNotJSON)
      [] file.kind = "not_object" -> Raised(AttributeError)
      [] file.kind = "null_token" -> Raised(AttributeError)
      [] OTHER -> Returned(strip(IF file.token # None THEN file.token[1] ELSE <<>>))

\* fault variant: the environment variable consulted before the argument
resolve_token_env_first(explicit_arg, env, file) ==
    LET env_token == strip(IF env # None THEN env[1] ELSE <<>>)
        token == IF explicit_arg # None THEN strip(explicit_arg[1]) ELSE <<>>
    IN  IF env_token # <<>> THEN Returned(env_token)
        ELSE IF token # <<>> THEN Returned(token)
        ELSE LET stored == config_token(file)
             IN  IF stored.raised # None THEN stored
                 ELSE IF stored.returned[1] # <<>> THEN stored
                 ELSE Raised(TokenNotFound)

\* resolve_token(explicit=explicit_arg)
resolve_token(explicit_arg, env, file) ==
    LET token == IF explicit_arg # None /\ explicit_arg[1] # <<>>
                 THEN strip(explicit_arg[1]) ELSE <<>>
        env_token == strip(IF env # None THEN env[1] ELSE <<>>)
    IN  IF token # <<>> THEN Returned(token)
        ELSE IF env_token # <<>> THEN Returned(env_token)
        ELSE LET stored == config_token(file)
             IN  IF stored.raised # None THEN stored
                 ELSE IF stored.returned[1] # <<>> THEN stored
                 ELSE Raised(TokenNotFound)

\* token strings, with and without surrounding whitespace, and the blank ones
TokenChars == {"t", " "}
TokenStrings == UNION {[1..n -> TokenChars] : n \in 0..MaxTokenLen}
OptionalTokens == {None} \cup {Some(t) : t \in TokenStrings}
ConfigFiles ==
    {ConfigFile(k, None) : k \in {"absent", "not_json", "not_object", "null_token"}}
    \cup {ConfigFile("object", t) : t \in OptionalTokens}

\* the CLI is started: --token, the environment and the config file are
\* whatever the user has
TokenInit ==
    /\ explicit \in OptionalTokens
    /\ environ \in OptionalTokens
    /\ config \in ConfigFiles
    /\ outcome = NotCalled
    /\ client_token = None

\* nothing of the CLI's token handling has run
TokenIdle ==
    /\ explicit = None
    /\ environ = None
    /\ config = ConfigFile("absent", None)
    /\ outcome = NotCalled
    /\ client_token = None

\* _handle_search / _handle_sweep: token = resolve_token(explicit=args.token)
call_resolve_token ==
    /\ outcome = NotCalled
    /\ outcome' = resolve_token(explicit, environ, config)
    /\ UNCHANGED <<explicit, environ, config, client_token>>

\* client = GitHubSearchClient(token), reached only when resolve_token returned
construct_client ==
    /\ outcome.returned # None
    /\ client_token = None
    /\ client_token' = outcome.returned
    /\ UNCHANGED <<explicit, environ, config, outcome>>

-----------------------------------------------------------------------------
(* The state machine *)

\* after GitHubSearchClient(token): the session carries the fixed headers
Init ==
    /\ pc = "idle"
    /\ session_headers = client_headers(Token, UserAgent)
    /\ per_page = 0
    /\ pages = 0
    /\ text_matches = TRUE
    /\ headers = EmptyDict
    /\ results = <<>>
    /\ page = 0
    /\ payload = NoPayload
    /\ attempt = 0
    /\ response = NoResponse
    /\ wait_seconds = 0
    /\ now = 0
    /\ returned = None
    /\ exc = None
    /\ gets = 0
    /\ sleeps = 0
    /\ req_gets = 0
    /\ req_sleeps = 0
    /\ history = <<>>
    /\ requested = <<>>
    /\ fetched = <<>>
    /\ sent_headers = EmptyDict
    /\ query_spec = DefaultQuerySpec
    /\ built = <<>>
    /\ TokenIdle

\* an exception leaves search_code: both frames are gone, the caller gets
\* on_raise(results)
Raise(e) ==
    /\ pc' = "raised"
    /\ exc' = Some(e)
    /\ returned' = on_raise(results)
    /\ response' = NoResponse
    /\ wait_seconds' = 0
    /\ now' = 0

\* search_code(query, per_page=pp, pages=pg, text_matches=tm), up to the
\* first test of the page loop
search_code(pp, pg, tm) ==
    /\ pc = "idle"
    /\ per_page' = pp
    /\ pages' = pg
    /\ text_matches' = tm
    /\ headers' = extra_headers(tm)
    /\ results' = <<>>
    /\ IF pg >= 1
       THEN page' = 1 /\ pc' = "request"
       ELSE page' = page /\ pc' = "return"
    /\ UNCHANGED <<session_headers, payload, attempt, response, wait_seconds, now,
                   returned, exc, gets, sleeps, req_gets, req_sleeps, history,
                   requested, fetched, sent_headers>>

\* params = {...}; self._request_with_retry(params, ...): first iteration
request_with_retry ==
    /\ pc = "request"
    /\ requested' = Append(requested, page)
    /\ attempt' = 1
    /\ req_gets' = 0
    /\ req_sleeps' = 0
    /\ history' = <<>>
    /\ pc' = "get"
    /\ UNCHANGED <<session_headers, per_page, pages, text_matches, headers, results,
                   page, payload, response, wait_seconds, now, returned, exc,
                   gets, sleeps, fetched, sent_headers>>

\* response = self.session.get(...): one HTTP GET, answered by reply
session_get(reply) ==
    /\ pc = "get"
    /\ response' = reply.response
    /\ sent_headers' = merge_headers(session_headers, headers)
    /\ gets' = gets + 1
    /\ req_gets' = req_gets + 1
    /\ history' = Append(history, [status_code |-> reply.response.status_code,
                                    rate_limited |-> reply.rate_limited])
    /\ pc' = "dispatch"
    /\ UNCHANGED <<session_headers, per_page, pages, text_matches, headers, results,
                   page, payload, attempt, wait_seconds, now, returned, exc,
                   sleeps, req_sleeps, requested, fetched>>

\* if response.status_code == 200: return response.json()
on_200 ==
    /\ pc = "dispatch"
    /\ status_ok(response)
    /\ IF response.json = "ValueError"
       THEN Raise(JSONDecodeError) /\ UNCHANGED payload
       ELSE /\ payload' = [json |-> response.json, items |-> response.items]
            /\ response' = NoResponse
            /\ wait_seconds' = 0
            /\ now' = 0
            /\ pc' = "page"
            /\ UNCHANGED <<returned, exc>>
    /\ UNCHANGED <<session_headers, per_page, pages, text_matches, headers, results,
                   page, attempt, gets, sleeps, req_gets,
                   req_sleeps, history, requested, fetched, sent_headers>>

\* if response.status_code == 403 and _is_rate_limited(response):
\*     wait_seconds = _retry_after(response, attempt)
on_rate_limited ==
    /\ pc = "dispatch"
    /\ ~status_ok(response)
    /\ should_retry(response)
    /\ \E t \in 0..MaxNow :
          /\ now' = t
          /\ wait_seconds' = retry_after(response, attempt, t)
    /\ pc' = "sleep"
    /\ UNCHANGED <<session_headers, per_page, pages, text_matches, headers, results,
                   page, payload, attempt, response, returned, exc, gets, sleeps,
                   req_gets, req_sleeps, history, requested, fetched, sent_headers>>

\* time.sleep(wait_seconds); continue -- and, when the range is used up,
\* raise GitHubAPIError("Retry limit exceeded ...").  After the sleep
\* response, wait_seconds and the clock value are dead (overwritten before
\* they are read again), so they are reset here.
time_sleep ==
    /\ pc = "sleep"
    /\ sleeps' = sleeps + 1
    /\ req_sleeps' = req_sleeps + 1
    /\ IF attempts_left(attempt)
       THEN /\ attempt' = attempt + 1
            /\ pc' = "get"
            /\ response' = NoResponse
            /\ wait_seconds' = 0
            /\ now' = 0
            /\ UNCHANGED <<returned, exc>>
       ELSE Raise(RetryLimitExceeded) /\ UNCHANGED attempt
    /\ UNCHANGED <<session_headers, per_page, pages, text_matches, headers, results,
                   page, payload, gets, req_gets, history,
                   requested, fetched, sent_headers>>

\* if response.status_code == 401: raise GitHubAPIError(...)
on_401 ==
    /\ pc = "dispatch"
    /\ ~status_ok(response)
    /\ ~should_retry(response)
    /\ is_unauthorized(response)
    /\ Raise(Unauthorized)
    /\ UNCHANGED <<session_headers, per_page, pages, text_matches, headers, results,
                   page, payload, attempt, gets, sleeps,
                   req_gets, req_sleeps, history, requested, fetched, sent_headers>>

\* message = _extract_error_message(response); raise GitHubAPIError(...)
on_api_error ==
    /\ pc = "dispatch"
    /\ ~status_ok(response)
    /\ ~should_retry(response)
    /\ ~is_unauthorized(response)
    /\ LET message == extract_error_message(response)
       IN  IF message.raised = None
           THEN Raise(APIError(response.status_code, message.value))
           ELSE Raise(AttributeError)
    /\ UNCHANGED <<session_headers, per_page, pages, text_matches, headers, results,
                   page, payload, attempt, gets, sleeps,
                   req_gets, req_sleeps, history, requested, fetched, sent_headers>>

\* items = payload.get("items", []); results.extend(_parse_items(items));
\* if len(items) < per_page: break -- and the step of the page loop
process_page ==
    /\ pc = "page"
    /\ IF payload.json # "object"
       THEN Raise(AttributeError) /\ UNCHANGED <<results, fetched, page>>
       ELSE LET items == IF payload.items = None THEN <<>> ELSE payload.items[1]
            IN  /\ results' = extend(results, parse_items(items))
                /\ fetched' = Append(fetched, items)
                /\ IF early_stop(Len(items), per_page)
                   THEN pc' = "return" /\ page' = page
                   ELSE IF more_pages(page, pages)
                        THEN pc' = "request" /\ page' = page + 1
                        ELSE pc' = "return" /\ page' = page
                /\ UNCHANGED <<response, wait_seconds, now, returned, exc>>
    /\ UNCHANGED <<session_headers, per_page, pages, text_matches, headers, payload,
                   attempt, gets, sleeps, req_gets, req_sleeps,
                   history, requested, sent_headers>>

\* return results
return_results ==
    /\ pc = "return"
    /\ returned' = Some(results)
    /\ pc' = "returned"
    /\ UNCHANGED <<session_headers, per_page, pages, text_matches, headers, results,
                   page, payload, attempt, response, wait_seconds, now, exc, gets,
                   sleeps, req_gets, req_sleeps, history, requested, fetched,
                   sent_headers>>

Next ==
    \/ (\E pp \in 0..MaxPerPage, pg \in 0..MaxPages, tm \in BOOLEAN :
          search_code(pp, pg, tm)) /\ UNCHANGED <<query_vars, token_vars>>
    \/ request_with_retry /\ UNCHANGED <<query_vars, token_vars>>
    \/ (\E reply \in Replies : session_get(reply)) /\ UNCHANGED <<query_vars, token_vars>>
    \/ on_200 /\ UNCHANGED <<query_vars, token_vars>>
    \/ on_rate_limited /\ UNCHANGED <<query_vars, token_vars>>
    \/ time_sleep /\ UNCHANGED <<query_vars, token_vars>>
    \/ on_401 /\ UNCHANGED <<query_vars, token_vars>>
    \/ on_api_error /\ UNCHANGED <<query_vars, token_vars>>
    \/ process_page /\ UNCHANGED <<query_vars, token_vars>>
    \/ return_results /\ UNCHANGED <<query_vars, token_vars>>

Spec == Init /\ [][Next]_vars

\* QuerySpec on its own: an instance is constructed and build() is called
\* on it repeatedly while the client stays idle
BuildInit ==
    /\ pc = "idle"
    /\ session_headers = client_headers(Token, UserAgent)
    /\ per_page = 0 /\ pages = 0 /\ text_matches = TRUE
    /\ headers = EmptyDict /\ results = <<>> /\ page = 0
    /\ payload = NoPayload /\ attempt = 0 /\ response = NoResponse
    /\ wait_seconds = 0 /\ now = 0 /\ returned = None /\ exc = None
    /\ gets = 0 /\ sleeps = 0 /\ req_gets = 0 /\ req_sleeps = 0
    /\ history = <<>> /\ requested = <<>> /\ fetched = <<>>
    /\ sent_headers = EmptyDict
    /\ QueryInit
    /\ TokenIdle

BuildNext == call_build /\ UNCHANGED <<client_vars, token_vars>>

BuildSpec == BuildInit /\ [][BuildNext]_vars

\* Token resolution on its own: the CLI resolves the token and, if it got
\* one, constructs the client
ResolveInit ==
    /\ pc = "idle"
    /\ session_headers = client_headers(Token, UserAgent)
    /\ per_page = 0 /\ pages = 0 /\ text_matches = TRUE
    /\ headers = EmptyDict /\ results = <<>> /\ page = 0
    /\ payload = NoPayload /\ attempt = 0 /\ response = NoResponse
    /\ wait_seconds = 0 /\ now = 0 /\ returned = None /\ exc = None
    /\ gets = 0 /\ sleeps = 0 /\ req_gets = 0 /\ req_sleeps = 0
    /\ history = <<>> /\ requested = <<>> /\ fetched = <<>>
    /\ sent_headers = EmptyDict
    /\ query_spec = DefaultQuerySpec
    /\ built = <<>>
    /\ TokenInit

ResolveNext ==
    \/ call_resolve_token /\ UNCHANGED <<client_vars, query_vars>>
    \/ construct_client /\ UNCHANGED <<client_vars, query_vars>>

ResolveSpec == ResolveInit /\ [][ResolveNext]_vars

-----------------------------------------------------------------------------
(* Properties *)

Last(h) == h[Len(h)]
Terminated == pc \in {"returned", "raised"}
AllRateLimited(h) == \A i \in 1..Len(h) : h[i].rate_limited

\* A finished call issues nothing more: no GET, no sleep, no new page.
Quiescent ==
    [][Terminated => (pc' = pc /\ gets' = gets /\ sleeps' = sleeps
                      /\ requested' = requested)]_vars

\* C1: a logical request whose responses are all rate limited ends with
\* "Retry limit exceeded while calling GitHub API" after exactly 3 HTTP
\* GETs; no request ever takes a 4th GET, and after the error the call
\* issues no further GET (for this page or a later one).
C1_State ==
    /\ req_gets <= 3
    /\ (Len(history) = 3 /\ AllRateLimited(history) /\ pc \notin {"dispatch", "sleep"})
          => (/\ pc = "raised"
              /\ exc = Some(RetryLimitExceeded)
              /\ req_gets = 3
              /\ Len(requested) = page)
    /\ exc = Some(RetryLimitExceeded)
          => (Len(history) = 3 /\ AllRateLimited(history) /\ req_gets = 3)
C1_RetryExhausted == []C1_State /\ Quiescent

\* C1 witness: the retry limit is hit on the second page, after 4 GETs.
C1_Witness ==
    /\ pc = "raised"
    /\ exc = Some(RetryLimitExceeded)
    /\ page = 2
    /\ gets = 4
    /\ AllRateLimited(history)

\* C2 as stated: once the k-th response (k in 1..3) of a request has status
\* 200, the request returns that response's parsed body, having made exactly
\* k GETs and k-1 sleeps.
C2_AnyOkBodySucceeds ==
    [][(pc = "dispatch" /\ response.status_code = 200)
         => (/\ pc' = "page"
             /\ payload' = [json |-> response.json, items |-> response.items]
             /\ req_gets' = Len(history) /\ req_sleeps' = Len(history) - 1)]_vars

\* C2 amended: if the first k-1 responses (k in 1..3) are rate-limited 403s
\* and the k-th has status 200 with a body that decodes as JSON, the request
\* returns the parsed body after exactly k GETs and k-1 sleeps; up to two
\* rate-limited responses never end the request.
C2_State ==
    /\ (Len(history) \in 1..2 /\ AllRateLimited(history))
          => pc \in {"dispatch", "sleep", "get"}
    /\ pc = "dispatch"
          => (/\ Len(history) \in 1..3
              /\ AllRateLimited(SubSeq(history, 1, Len(history) - 1))
              /\ req_gets = Len(history)
              /\ req_sleeps = Len(history) - 1)
C2_Step ==
    (pc = "dispatch" /\ response.status_code = 200 /\ response.json # "ValueError")
       => (/\ pc' = "page"
           /\ payload' = [json |-> response.json, items |-> response.items]
           /\ exc' = None
           /\ req_gets' = Len(history) /\ req_sleeps' = Len(history) - 1
           /\ gets' = gets /\ sleeps' = sleeps)
C2_SuccessAfterRetries == []C2_State /\ [][C2_Step]_vars

\* C2 witness: [403 rate-limited, 403 rate-limited, 200] has succeeded with
\* 3 GETs and 2 sleeps.
C2_Witness ==
    /\ pc = "page"
    /\ Len(history) = 3
    /\ history[1].rate_limited /\ history[2].rate_limited
    /\ history[3].status_code = 200
    /\ req_gets = 3 /\ req_sleeps = 2
    /\ payload.items # None

\* C3: a 401 on any attempt of any page makes search_code fail at once with
\* "GitHub rejected the token (401 Unauthorized)": the attempt is not
\* retried, no sleep follows it, and no further GET is issued.
C3_State ==
    (Len(history) >= 1 /\ Last(history).status_code = 401 /\ pc # "dispatch")
       => (/\ pc = "raised"
           /\ exc = Some(Unauthorized)
           /\ req_gets = Len(history)
           /\ req_sleeps = Len(history) - 1
           /\ Len(requested) = page)
C3_Step ==
    (pc = "dispatch" /\ response.status_code = 401)
       => (pc' = "raised" /\ gets' = gets /\ sleeps' = sleeps)
C3_UnauthorizedIsFatal == []C3_State /\ [][C3_Step]_vars /\ Quiescent

\* C3 witness: a 401 that also looks rate limited (remaining quota "0"),
\* received on the second attempt of the second page, has ended the call.
C3_Witness ==
    /\ pc = "raised"
    /\ exc = Some(Unauthorized)
    /\ page = 2
    /\ Len(history) = 2
    /\ sleeps = 1
    /\ results # <<>>


\* C4: every response that is neither a 200 nor a rate-limited 403 ends the
\* query's fetch with a GitHubAPIError carrying the status code; it is not
\* retried, not taken for an empty page, and no further page is requested.
C4_ErrorCarriesStatus ==
    (Len(history) >= 1 /\ Last(history).status_code # 200
        /\ ~Last(history).rate_limited /\ pc # "dispatch")
       => (/\ pc = "raised"
           /\ exc # None
           /\ exc[1].type = "GitHubAPIError"
           /\ \/ exc[1].status_code = Some(Last(history).status_code)
              \/ Last(history).status_code = 401 /\ exc[1] = Unauthorized
           /\ req_gets = Len(history)
           /\ Len(fetched) = page - 1
           /\ Len(requested) = page)

RECURSIVE Flatten(_)
Flatten(f) == IF f = <<>> THEN <<>> ELSE Head(f) \o Flatten(Tail(f))

RECURSIVE TotalLen(_)
TotalLen(f) == IF f = <<>> THEN 0 ELSE Len(Head(f)) + TotalLen(Tail(f))

\* C5: once a fetched page carries strictly fewer items than per_page (a
\* missing items field counting as none), it is the last page requested,
\* whatever `pages` is, and the call returns all items fetched so far.
C5_EarlyTermination ==
    /\ \A i \in 1..Len(fetched) :
          Len(fetched[i]) < per_page
             => (/\ i = Len(fetched)
                 /\ Len(requested) = i
                 /\ pc \in {"return", "returned"})
    /\ pc = "returned"
          => (/\ Len(returned[1]) = TotalLen(fetched)
              /\ gets = Len(fetched) + sleeps)

\* C5 witness: pages = 3, page 1 full and page 2 short: 2 GETs, the items of
\* both pages returned, page 3 never requested.
C5_Witness ==
    /\ pc = "returned"
    /\ pages = 3 /\ per_page = 2
    /\ Len(fetched) = 2
    /\ Len(fetched[1]) = 2 /\ Len(fetched[2]) = 1
    /\ requested = <<1, 2>>
    /\ gets = 2
    /\ Len(returned[1]) = 3

\* C6: search_code fails atomically: when a page's request ends in an error
\* after earlier pages were fetched, the error is raised and the caller
\* receives none of the results accumulated so far.
C6_FailsAtomically ==
    /\ pc = "raised" => (returned = None /\ exc # None)
    /\ returned # None => (pc = "returned" /\ exc = None)

\* C6 witness: page 2 came back undecodable after page 1 had yielded
\* results: the call raised and returned nothing.
C6_Witness ==
    /\ pc = "raised"
    /\ exc = Some(JSONDecodeError)
    /\ page = 2
    /\ Len(fetched) = 1
    /\ results # <<>>
    /\ returned = None

\* C7: pages are requested one at a time in the order 1, 2, 3, ..., each
\* only after the one before was fetched, and the result list is the pages'
\* items in page order, each page in the order the API gave.
C7_PagesInOrder ==
    /\ requested = [i \in 1..Len(requested) |-> i]
    /\ Len(requested) \in {Len(fetched), Len(fetched) + 1}
    /\ pc \in {"get", "dispatch", "sleep", "page"} => Len(requested) = Len(fetched) + 1
    /\ Len(results) = TotalLen(fetched)
    /\ \A i \in 1..Len(results) : results[i] = ParseItem(Flatten(fetched)[i])
    /\ pc = "returned" => returned = Some(results)

\* C7 witness: three pages fetched, the last one short; five results.
C7_Witness ==
    /\ pc = "returned"
    /\ requested = <<1, 2, 3>>
    /\ Len(fetched[1]) = 2 /\ Len(fetched[2]) = 2 /\ Len(fetched[3]) = 1
    /\ Len(returned[1]) = 5
    /\ returned[1][1].path # returned[1][2].path

\* C8 as stated: with per_page and pages positive, a finished call has
\* issued at least 1 and at most `pages` HTTP GETs.
C8_AtMostPagesGets ==
    (per_page > 0 /\ pages > 0 /\ Terminated) => (1 <= gets /\ gets <= pages)

\* C8 amended: with per_page and pages positive, a call makes at least 1 and
\* at most `pages` logical (retry-wrapped) page requests, fewer than `pages`
\* only on early termination or error; each takes 1 to 3 HTTP GETs, so the
\* call issues between 1 and 3 * pages GETs.
C8_RequestsBounded ==
    (per_page > 0 /\ pages > 0)
       => (/\ Len(requested) <= pages
           /\ gets <= 3 * Len(requested)
           /\ gets <= 3 * pages
           /\ gets >= Len(fetched)
           /\ Terminated
                 => (/\ Len(requested) >= 1
                     /\ gets >= Len(requested)
                     /\ Len(requested) < pages
                           => \/ pc = "raised"
                              \/ Len(Last(fetched)) < per_page))

\* C8 witness: one page asked for, fetched on the third GET.
C8_Witness ==
    /\ pc = "returned"
    /\ per_page > 0
    /\ pages = 1
    /\ Len(requested) = 1
    /\ gets = 3

\* C9: the Accept header on the wire asks for text-match metadata when
\* text_matches is true, and is a different value when it is false.
C9_AcceptFollowsTextMatches ==
    gets >= 1
       => (/\ "Accept" \in DOMAIN sent_headers
           /\ text_matches => sent_headers["Accept"] = TextMatchAccept
           /\ ~text_matches => sent_headers["Accept"] # TextMatchAccept)

\* C10: the wait for a rate-limited response on attempt n is
\* max(reset - now, 1) when the reset header is present and an integer, and
\* min(2^n, 60) -- 2, 4, 8 -- otherwise; every wait is at least 1.
C10_Wait ==
    pc = "sleep"
       => LET h == Get(response.headers, "X-RateLimit-Reset")
              stamps == {e \in ResetTimestamps : h = Some(e.text)}
          IN  /\ wait_seconds >= 1
              /\ \A e \in stamps :
                    wait_seconds = (IF e.value - now > 1 THEN e.value - now ELSE 1)
              /\ stamps = {}
                    => /\ wait_seconds = (CASE attempt = 1 -> 2 [] attempt = 2 -> 4
                                            [] attempt = 3 -> 8)
                       /\ wait_seconds <= 60

\* C10 witness: a reset time already in the past on the second attempt
\* gives a wait of 1.
C10_Witness ==
    /\ pc = "sleep"
    /\ attempt = 2
    /\ Get(response.headers, "X-RateLimit-Reset") = Some(<<"0">>)
    /\ now = 2
    /\ wait_seconds = 1


\* C13: within one logical request a backoff sleep happens only when another
\* attempt remains: the sleeps number strictly fewer than the GETs (at most
\* 2), and a rate-limited response on the 3rd attempt raises the
\* retry-limit error without a sleep before it.
\* (At pc = "get" the GET that follows the last sleep is about to be issued.)
C13_SleepOnlyBeforeRetry ==
    /\ (req_gets >= 1 /\ pc # "get") => req_sleeps < req_gets
    /\ pc = "get" => req_sleeps = req_gets
    /\ req_sleeps <= 2
    /\ exc = Some(RetryLimitExceeded) => req_sleeps = 2


-----------------------------------------------------------------------------
(* QuerySpec.build *)

\* s without its leading and trailing whitespace
Trimmed(s) ==
    LET solid == {i \in 1..Len(s) : s[i] \notin Whitespace}
    IN  IF solid = {} THEN <<>>
        ELSE SubSeq(s, CHOOSE i \in solid : \A j \in solid : i <= j,
                       CHOOSE i \in solid : \A j \in solid : i >= j)

\* the whitespace-normalized term: trimmed, every inner run of whitespace
\* replaced by one space
RECURSIVE Squeezed(_)
Squeezed(t) ==
    IF Len(t) <= 1 THEN t
    ELSE LET front == SubSeq(t, 1, Len(t) - 1)
             c == t[Len(t)]
         IN  IF c \notin Whitespace THEN Squeezed(front) \o <<c>>
             ELSE IF front[Len(front)] \in Whitespace THEN Squeezed(front)
             ELSE Squeezed(front) \o <<" ">>
NormalizedTerm(s) == Squeezed(Trimmed(s))

\* the token of a qualifier pair, <<>> when the pair yields none
TokenOf(pair) ==
    LET key == Trimmed(pair[1])
        value == Trimmed(pair[2])
    IN  IF key = <<>> THEN <<>>
        ELSE IF value = <<>> THEN key
        ELSE key \o <<":">> \o value

\* what build() is to return: the term and the tokens that exist, in
\* order, with one space between neighbours
RECURSIVE SpaceSeparated(_)
SpaceSeparated(pieces) ==
    IF pieces = <<>> THEN <<>>
    ELSE LET rest == SpaceSeparated(Tail(pieces))
         IN  IF Head(pieces) = <<>> THEN rest
             ELSE IF rest = <<>> THEN Head(pieces)
             ELSE Head(pieces) \o <<" ">> \o rest
ExpectedBuild(q) ==
    SpaceSeparated(<<NormalizedTerm(q.query)>>
                   \o [i \in 1..Len(q.qualifiers) |-> TokenOf(q.qualifiers[i])])

\* C11: build() returns the whitespace-normalized query term (if not empty)
\* followed by one token per qualifier whose stripped key is not empty, in
\* the order supplied, joined by single spaces; a token is key:value when
\* the stripped value is not empty and the bare key otherwise; repeated
\* calls return the same string and leave the fields as they were.
C11_State ==
    /\ \A i \in 1..Len(built) : built[i] = ExpectedBuild(query_spec)
    /\ \A i, j \in 1..Len(built) : built[i] = built[j]
C11_Build == []C11_State /\ [][query_spec' = query_spec]_vars

\* C11 witness: "a \na" with the pairs (" k ", "v ") and ("k", " ") has
\* been built twice, giving "a a k:v k" both times.
C11_Witness ==
    /\ query_spec = [query |-> <<"a", " ", "\n", "a">>,
                     qualifiers |-> << << <<" ", "k", " ">>, <<"v", " ">> >>,
                                       << <<"k">>, <<" ">> >> >>]
    /\ Len(built) = 2
    /\ built[1] = <<"a", " ", "a", " ", "k", ":", "v", " ", "k">>
    /\ built[2] = built[1]


-----------------------------------------------------------------------------
(* resolve_token *)

Blank(source) == source = None \/ Trimmed(source[1]) = <<>>
ConfigBlank ==
    \/ config.kind = "absent"
    \/ config.kind = "object" /\ Blank(config.token)
ConfigHasToken == config.kind = "object" /\ ~Blank(config.token)

====
